---- MODULE Spec2Model ----
(***************************************************************************)
(* Agentic honeypot: the POST /honeypot/message handler (app.py), the      *)
(* scam detector (detector.py), the intelligence extractor (extract.py)    *)
(* and the persona reply generator's per-session map (agent.py).           *)
(*                                                                         *)
(* Texts are sequences of one-character strings, so that the regular       *)
(* expressions and the substring tests are computed character by           *)
(* character.  A score is written in hundredths (90 is the double 0.9) and *)
(* a session's confidence is a double, with the arithmetic of doubles.     *)
(***************************************************************************)
EXTENDS Bags, FiniteSets, Integers, Sequences, TLC

VARIABLES
    sessions,      \* session_manager: session id -> Session record (live sessions only)
    chains,        \* agent._chains: session id -> completed turns of that conversation
    detector,      \* detector._detector: "none" until the pipeline is loaded
    IS_RENDER,     \* detector.IS_RENDER: the deployment mode, fixed at import
    now,           \* the wall clock, in seconds
    delivered,     \* the callback endpoint: session id -> 2xx answers in this session's life
    scored,        \* session id -> the sum of the scores of this session's scam-like
                   \* detections, in hundredths
    built,         \* the pipelines constructed by pipeline(...) in this process
    endpoint,      \* the callback endpoint: "flaky" while it may refuse a post, "up"
                   \* once it accepts every post
    sequential,    \* no two requests have been inside handle_message at the same time
    last,          \* the request that made the latest step: what it did and returned
    threads        \* the requests inside handle_message, each before its next access
                   \* to the shared state (a bag of request traces)

vars ==
    <<sessions, chains, detector, IS_RENDER, now, delivered, scored, built, endpoint,
      sequential, last, threads>>

----------------------------------------------------------------------------
(* Characters and texts *)

Digits == {"0", "1", "2", "3", "4", "5", "6", "7", "8", "9"}

LowerSeq ==
    <<"a", "b", "c", "d", "e", "f", "g", "h", "i", "j", "k", "l", "m",
      "n", "o", "p", "q", "r", "s", "t", "u", "v", "w", "x", "y", "z">>

UpperSeq ==
    <<"A", "B", "C", "D", "E", "F", "G", "H", "I", "J", "K", "L", "M",
      "N", "O", "P", "Q", "R", "S", "T", "U", "V", "W", "X", "Y", "Z">>

Letters == {LowerSeq[i] : i \in 1..Len(LowerSeq)} \cup {UpperSeq[i] : i \in 1..Len(UpperSeq)}

\* \w of the re module, on the ASCII characters the texts are made of
WordChars == Letters \cup Digits \cup {"_"}

\* \s of the re module and the characters str.strip() removes, on the ASCII
\* characters: space, \t, \n, \r, \f, the vertical tab (0x0b) and the four
\* separators 0x1c to 0x1f
Whitespace == {" ", "\t", "\n", "\r", "\f", "", "", "", "", ""}

\* the character at 1-based position i, "" outside the text
CharAt(text, i) == IF i >= 1 /\ i <= Len(text) THEN text[i] ELSE ""

AllIn(text, i, j, S) == \A k \in i..j : CharAt(text, k) \in S

\* \b holds before position i: exactly one of the two neighbours is a word character
Boundary(text, i) == (CharAt(text, i - 1) \in WordChars) # (CharAt(text, i) \in WordChars)

Max(S) == CHOOSE m \in S : \A n \in S : n <= m

\* str.lower() of one character
LowerChar(c) ==
    IF \E i \in 1..Len(UpperSeq) : UpperSeq[i] = c
    THEN LowerSeq[CHOOSE i \in 1..Len(UpperSeq) : UpperSeq[i] = c]
    ELSE c

\* str.lower()
Lower(text) == [i \in 1..Len(text) |-> LowerChar(text[i])]

\* the `in` operator on strings: kw occurs in text as a substring
Contains(text, kw) ==
    \E i \in 1..(Len(text) - Len(kw) + 1) : SubSeq(text, i, i + Len(kw) - 1) = kw

\* str.strip(): leading and trailing whitespace removed
Strip(text) ==
    LET keep == {i \in 1..Len(text) : text[i] \notin Whitespace}
    IN IF keep = {} THEN <<>>
       ELSE SubSeq(text, CHOOSE a \in keep : \A b \in keep : a <= b, Max(keep))

\* " ".join(parts)
RECURSIVE Join(_)
Join(parts) ==
    IF Len(parts) = 0 THEN <<>>
    ELSE IF Len(parts) = 1 THEN parts[1]
    ELSE parts[1] \o <<" ">> \o Join(Tail(parts))

----------------------------------------------------------------------------
(* Floating point.  The scores and the confidence are Python floats (IEEE  *)
(* 754 doubles) and `score * 0.4`, `confidence += delta` and               *)
(* `confidence >= 0.6` round as doubles do.  A double d is kept as the     *)
(* natural number d * 2^60, which is exact for 0 and for every double from *)
(* 2^-8 up (all the model's scores, increments and sums), written in base  *)
(* 2^15 with the least significant digit first and no leading zero digit.  *)
(* An operator binds each argument it uses more than once in a singleton   *)
(* set, so that the argument is evaluated once.                            *)

Base == 32768

RECURSIVE Pow2(_)
Pow2(n) == IF n = 0 THEN 1 ELSE 2 * Pow2(n - 1)

\* the first n digits of a without their leading zero digits
RECURSIVE TrimTo(_, _)
TrimTo(a, n) ==
    IF n = 0 THEN <<>>
    ELSE IF a[n] = 0 THEN TrimTo(a, n - 1)
    ELSE SubSeq(a, 1, n)

Trim(a) == CHOOSE r \in {TrimTo(u, Len(u)) : u \in {a}} : TRUE

Rest(a) == IF a = <<>> THEN <<>> ELSE Tail(a)

Digit(a) == IF a = <<>> THEN 0 ELSE a[1]

\* a + b + c for a carry c
RECURSIVE AddCarry(_, _, _)
AddCarry(a, b, c) ==
    CHOOSE r \in
        {IF u = <<>> /\ v = <<>> THEN (IF c = 0 THEN <<>> ELSE <<c>>)
         ELSE CHOOSE s \in {<<x % Base>> \o AddCarry(Rest(u), Rest(v), x \div Base) :
                               x \in {Digit(u) + Digit(v) + c}} : TRUE :
            u \in {a}, v \in {b}} : TRUE

\* a * k + c for one digit k
RECURSIVE MulSmall(_, _, _)
MulSmall(a, k, c) ==
    CHOOSE r \in
        {IF u = <<>> THEN (IF c = 0 THEN <<>> ELSE <<c>>)
         ELSE CHOOSE s \in {<<x % Base>> \o MulSmall(Tail(u), k, x \div Base) :
                               x \in {u[1] * k + c}} : TRUE :
            u \in {a}} : TRUE

RECURSIVE MulBig(_, _)
MulBig(a, b) ==
    CHOOSE r \in
        {IF v = <<>> THEN <<>>
         ELSE Trim(AddCarry(MulSmall(u, v[1], 0), <<0>> \o MulBig(u, Tail(v)), 0)) :
            u \in {a}, v \in {b}} : TRUE

\* <<a div d, a mod d>> for a divisor of at most one digit
RECURSIVE DivSmall(_, _)
DivSmall(a, d) ==
    CHOOSE r \in
        {IF u = <<>> THEN <<<<>>, 0>>
         ELSE CHOOSE s \in {<<Trim(<<(higher[2] * Base + u[1]) \div d>> \o higher[1]),
                              (higher[2] * Base + u[1]) % d>> :
                               higher \in {DivSmall(Tail(u), d)}} : TRUE :
            u \in {a}} : TRUE

ShiftRight(a, k) ==
    CHOOSE r \in
        {IF Len(u) <= k \div 15 THEN <<>>
         ELSE DivSmall(SubSeq(u, k \div 15 + 1, Len(u)), Pow2(k % 15))[1] :
            u \in {a}} : TRUE

ShiftLeft(a, k) ==
    CHOOSE r \in
        {IF u = <<>> THEN <<>>
         ELSE [i \in 1..(k \div 15) |-> 0] \o MulSmall(u, Pow2(k % 15), 0) :
            u \in {a}} : TRUE

RECURSIVE Bits(_)
Bits(n) == IF n = 0 THEN 0 ELSE 1 + Bits(n \div 2)

BitLen(a) ==
    CHOOSE r \in
        {IF u = <<>> THEN 0 ELSE 15 * (Len(u) - 1) + Bits(u[Len(u)]) : u \in {a}} : TRUE

\* bit number i of a, bit 0 being the lowest
BitAt(a, i) ==
    IF i \div 15 + 1 > Len(a) THEN 0 ELSE (a[i \div 15 + 1] \div Pow2(i % 15)) % 2

\* some bit of a below bit number n is set
LowBits(a, n) ==
    \/ \E j \in 1..Len(a) : j <= n \div 15 /\ a[j] # 0
    \/ n \div 15 + 1 <= Len(a) /\ a[n \div 15 + 1] % Pow2(n % 15) # 0

\* a with its k lowest bits rounded away, to nearest and to even on a tie
RoundAt(a, k) ==
    ShiftLeft(AddCarry(ShiftRight(a, k), <<>>,
                       IF BitAt(a, k - 1) = 1 /\ (LowBits(a, k - 1) \/ BitAt(a, k) = 1)
                       THEN 1 ELSE 0),
              k)

\* the nearest number of at most 53 significant bits: the rounding of a double
RoundToDouble(a) ==
    CHOOSE r \in
        {IF BitLen(u) <= 53 THEN u ELSE RoundAt(u, BitLen(u) - 53) : u \in {a}} : TRUE

\* a >= b
RECURSIVE AtLeastFrom(_, _, _)
AtLeastFrom(a, b, i) ==
    IF i = 0 THEN TRUE
    ELSE IF a[i] # b[i] THEN a[i] > b[i]
    ELSE AtLeastFrom(a, b, i - 1)

AtLeast(a, b) ==
    \E u \in {a}, v \in {b} :
        IF Len(u) # Len(v) THEN Len(u) > Len(v) ELSE AtLeastFrom(u, v, Len(u))

\* the double x * y
FloatMul(x, y) == ShiftRight(RoundToDouble(MulBig(x, y)), 60)

\* the double x + y
FloatAdd(x, y) == RoundToDouble(AddCarry(x, y, 0))

\* the quotient with its lowest bit set when the division left a remainder
Sticky(qr) ==
    CHOOSE r \in
        {IF p[2] = 0 THEN p[1]
         ELSE IF p[1] = <<>> THEN <<1>>
         ELSE <<p[1][1] + 1 - (p[1][1] % 2)>> \o Tail(p[1]) :
            p \in {qr}} : TRUE

\* the double a decimal literal num/den denotes (0.4 is Float(4, 10))
Float(num, den) ==
    IF num = 0 THEN <<>>
    ELSE ShiftRight(RoundToDouble(Sticky(DivSmall(ShiftLeft(<<num>>, 120), den))), 60)

----------------------------------------------------------------------------
(* extract.py.  A pattern is an operator (text, i) giving the position     *)
(* just after the match the regex engine finds starting at i (greedy,      *)
(* backtracking), or 0 when there is no match at i.                        *)

\* \b\d{9,18}\b
BANK_ACCOUNT_PATTERN(text, i) ==
    LET ends == {i + k : k \in {k \in 9..18 : AllIn(text, i, i + k - 1, Digits)
                                               /\ Boundary(text, i + k)}}
    IN IF Boundary(text, i) /\ ends # {} THEN Max(ends) ELSE 0

\* \b[a-zA-Z0-9.\-_]{3,}@[a-zA-Z]{2,}\b
UPI_PATTERN(text, i) ==
    LET n == Len(text)
        local == Letters \cup Digits \cup {".", "-", "_"}
        domEnds(k) == {i + k + 1 + m : m \in {m \in 2..n :
                          AllIn(text, i + k + 1, i + k + m, Letters)
                          /\ Boundary(text, i + k + 1 + m)}}
        good == {k \in 3..n : AllIn(text, i, i + k - 1, local)
                              /\ CharAt(text, i + k) = "@"
                              /\ domEnds(k) # {}}
    IN IF Boundary(text, i) /\ good # {} THEN Max(domEnds(Max(good))) ELSE 0

\* (?:\+91[-\s]?|0)?[6-9]\d{9}\b
PHONE_PATTERN(text, i) ==
    LET core(j) == IF CharAt(text, j) \in {"6", "7", "8", "9"}
                      /\ AllIn(text, j + 1, j + 9, Digits)
                      /\ Boundary(text, j + 10)
                   THEN j + 10 ELSE 0
        plus91 == CharAt(text, i) = "+" /\ CharAt(text, i + 1) = "9" /\ CharAt(text, i + 2) = "1"
        sep == CharAt(text, i + 3) \in ({"-"} \cup Whitespace)
    IN IF plus91 /\ sep /\ core(i + 4) > 0 THEN core(i + 4)
       ELSE IF plus91 /\ core(i + 3) > 0 THEN core(i + 3)
       ELSE IF CharAt(text, i) = "0" /\ core(i + 1) > 0 THEN core(i + 1)
       ELSE core(i)

\* https?://[^\s"'>]+
URL_PATTERN(text, i) ==
    LET n == Len(text)
        stop == Whitespace \cup {"\"", "'", ">"}
        j == IF CharAt(text, i + 4) = "s" THEN i + 5 ELSE i + 4
        scheme == SubSeq(text, i, i + 3) = <<"h", "t", "t", "p">>
                  /\ SubSeq(text, j, j + 2) = <<":", "/", "/">>
        runs == {k \in 1..n : j + 2 + k <= n
                              /\ \A p \in (j + 3)..(j + 2 + k) : text[p] \notin stop}
    IN IF i + 3 <= n /\ j + 2 <= n /\ scheme /\ runs # {} THEN j + 3 + Max(runs) ELSE 0

\* pattern.match(text, i) for the compiled pattern of that name
MatchAt(pattern, text, i) ==
    CASE pattern = "BANK_ACCOUNT_PATTERN" -> BANK_ACCOUNT_PATTERN(text, i)
      [] pattern = "PHONE_PATTERN" -> PHONE_PATTERN(text, i)
      [] pattern = "UPI_PATTERN" -> UPI_PATTERN(text, i)
      [] pattern = "URL_PATTERN" -> URL_PATTERN(text, i)

\* pattern.findall(text) from position i on, as the set of the matched strings:
\* leftmost match first, the search resuming where the match ended
RECURSIVE FindAll(_, _, _)
FindAll(pattern, text, i) ==
    IF i > Len(text) THEN {}
    ELSE LET e == MatchAt(pattern, text, i)
         IN IF e > 0
            THEN {SubSeq(text, i, e - 1)} \cup FindAll(pattern, text, e)
            ELSE FindAll(pattern, text, i + 1)

extract_SUSPICIOUS_KEYWORDS ==
    { <<"o", "t", "p">>,
      <<"u", "p", "i">>,
      <<"b", "a", "n", "k">>,
      <<"v", "e", "r", "i", "f", "y">>,
      <<"b", "l", "o", "c", "k", "e", "d">>,
      <<"u", "r", "g", "e", "n", "t">>,
      <<"s", "u", "s", "p", "e", "n", "d", "e", "d">>,
      <<"k", "y", "c">>,
      <<"p", "i", "n">>,
      <<"r", "e", "f", "u", "n", "d">>,
      <<"g", "i", "f", "t", " ", "c", "a", "r", "d">>,
      <<"c", "r", "y", "p", "t", "o">>,
      <<"b", "i", "t", "c", "o", "i", "n">>,
      <<"b", "t", "c">>,
      <<"g", "o", "l", "d">>,
      <<"m", "o", "n", "e", "y">> }

\* re.sub(r"\D", "", num)
normalize_number(num) == SelectSeq(num, LAMBDA c : c \in Digits)

Categories == {"bankAccounts", "upiIds", "phoneNumbers", "phishingLinks", "suspiciousKeywords"}

extract_intelligence(text) ==
    LET text_lower == Lower(text)
        raw_bank_accounts == FindAll("BANK_ACCOUNT_PATTERN", text, 1)
        raw_phone_numbers == FindAll("PHONE_PATTERN", text, 1)
        upi_ids == FindAll("UPI_PATTERN", text, 1)
        urls == FindAll("URL_PATTERN", text, 1)
        normalized_phones == {normalize_number(p) : p \in raw_phone_numbers}
        cleaned_bank_accounts ==
            {acc \in raw_bank_accounts : normalize_number(acc) \notin normalized_phones}
    IN [bankAccounts |-> cleaned_bank_accounts,
        upiIds |-> upi_ids,
        phoneNumbers |-> raw_phone_numbers,
        phishingLinks |-> urls,
        suspiciousKeywords |-> {kw \in extract_SUSPICIOUS_KEYWORDS : Contains(text_lower, kw)}]

----------------------------------------------------------------------------
(* detector.py *)

detector_SUSPICIOUS_KEYWORDS ==
    { <<"u", "r", "g", "e", "n", "t">>,
      <<"v", "e", "r", "i", "f", "y">>,
      <<"a", "c", "c", "o", "u", "n", "t">>,
      <<"b", "l", "o", "c", "k", "e", "d">>,
      <<"s", "u", "s", "p", "e", "n", "d", "e", "d">>,
      <<"k", "y", "c">>,
      <<"r", "e", "f", "u", "n", "d">>,
      <<"d", "e", "b", "i", "t">>,
      <<"c", "r", "e", "d", "i", "t">>,
      <<"b", "a", "n", "k">>,
      <<"u", "p", "i">>,
      <<"m", "o", "n", "e", "y">> }

STRONG_KEYWORDS ==
    { <<"o", "t", "p">>,
      <<"u", "p", "i", " ", "p", "i", "n">>,
      <<"p", "i", "n">>,
      <<"o", "n", "e", " ", "t", "i", "m", "e", " ", "p", "a", "s", "s", "w", "o", "r", "d">> }

\* any(sk in text for sk in STRONG_KEYWORDS)
HasStrong(text) == \E sk \in STRONG_KEYWORDS : Contains(text, sk)

\* sum(1 for kw in SUSPICIOUS_KEYWORDS if kw in text)
Hits(text) == Cardinality({kw \in detector_SUSPICIOUS_KEYWORDS : Contains(text, kw)})

MaxOf(a, b) == IF a >= b THEN a ELSE b

\* variant: a single suspicious keyword is enough
detect_scam_render_one_hit(raw) ==
    LET text == Lower(raw)
    IN IF HasStrong(text) THEN <<TRUE, 90>>
       ELSE IF Hits(text) >= 1 THEN <<TRUE, 70>>
       ELSE <<FALSE, 0>>

\* detect_scam with IS_RENDER set: <<is_scam, score>>
detect_scam_render(raw) ==
    LET text == Lower(raw)
    IN IF HasStrong(text) THEN <<TRUE, 90>>
       ELSE IF Hits(text) >= 2 THEN <<TRUE, 70>>
       ELSE <<FALSE, 0>>

\* variant: the keywords are looked up in the text as received and the
\* keyword floors replace the model's score
detect_scam_model_as_received(raw, result) ==
    LET label == Lower(result.label)
        byLabel == Contains(label, <<"p", "h", "i", "s", "h">>)
                   \/ Contains(label, <<"s", "p", "a", "m">>)
                   \/ Contains(label, <<"f", "r", "a", "u", "d">>)
        strong == HasStrong(raw)
        many == Hits(raw) >= 2
        is_scam == byLabel \/ strong \/ many
        score == IF many THEN 60 ELSE IF strong THEN 85 ELSE result.score
    IN <<is_scam, IF is_scam THEN score ELSE 0>>

\* detect_scam with the model: result is what the pipeline returned, [label, score]
detect_scam_model(raw, result) ==
    LET text == Lower(raw)
        label == Lower(result.label)
        byLabel == Contains(label, <<"p", "h", "i", "s", "h">>)
                   \/ Contains(label, <<"s", "p", "a", "m">>)
                   \/ Contains(label, <<"f", "r", "a", "u", "d">>)
        strong == HasStrong(text)
        is1 == byLabel \/ strong
        score1 == IF strong THEN MaxOf(result.score, 85) ELSE result.score
        many == Hits(text) >= 2
        is_scam == is1 \/ many
        score == IF many THEN MaxOf(score1, 60) ELSE score1
    IN <<is_scam, IF is_scam THEN score ELSE 0>>

----------------------------------------------------------------------------
(* The session store (session_manager.SessionManager).  A category of the  *)
(* intelligence record is a bag of strings, so that a duplicate entry is   *)
(* a state the model can express.  get_session returns the stored record   *)
(* itself, a dict the handler keeps and reads after the store's mutations; *)
(* every other operation looks the record up by id.  A record that         *)
(* cleanup_stale evicts stays, as it was, with the requests that hold it.  *)

NewSession(t) ==
    [total_messages |-> 0,
     confidence |-> <<>>,
     agent_active |-> FALSE,
     callback_sent |-> FALSE,
     intelligence |-> [bankAccounts |-> EmptyBag, upiIds |-> EmptyBag,
                      phoneNumbers |-> EmptyBag, phishingLinks |-> EmptyBag,
                      suspiciousKeywords |-> EmptyBag],
     last_active |-> t]

\* the map f on the keys in D only
RECURSIVE Restrict(_, _)
Restrict(f, D) ==
    IF D = {} THEN <<>>
    ELSE LET x == CHOOSE y \in D : TRUE
         IN (x :> f[x]) @@ Restrict(f, D \ {x})

\* the map f with key k set to v
Put(f, k, v) == (k :> v) @@ f

\* the store holds a record for id: every operation but get_session, which
\* creates the record, works on the record of an id the store holds
Stored(S, id) == id \in DOMAIN S

get_session(S, id, t) == IF id \in DOMAIN S THEN S ELSE Put(S, id, NewSession(t))

increment_message_count(S, id, t) ==
    [S EXCEPT ![id].total_messages = @ + 1, ![id].last_active = t]

\* session["confidence"] += delta
update_confidence(S, id, delta) ==
    [S EXCEPT ![id].confidence = FloatAdd(@, delta)]

activate_agent(S, id) == [S EXCEPT ![id].agent_active = TRUE]

mark_callback_sent(S, id) == [S EXCEPT ![id].callback_sent = TRUE]

add_intelligence(S, id, key, values) ==
    LET old == S[id].intelligence[key]
    IN [S EXCEPT ![id].intelligence[key] = old (+) SetToBag(values \ BagToSet(old))]

\* the ids cleanup_stale evicts and returns
cleanup_stale(S, max_idle_seconds, exclude_session_id, t) ==
    {id \in DOMAIN S \ {exclude_session_id} : t - S[id].last_active > max_idle_seconds}

----------------------------------------------------------------------------
(* agent.py *)

\* _get_or_create_chain: `if session_id in _chains`
chain_exists(C, session_id) == session_id \in DOMAIN C

\* _get_or_create_chain: `_chains[session_id] = chain`, a chain whose memory
\* is empty
set_chain(C, session_id) == Put(C, session_id, 0)

\* a cleanup that drops no chain
cleanup_chains_of_nobody(C, session_ids) == C

cleanup_chains_for_sessions(C, session_ids) == Restrict(C, DOMAIN C \ session_ids)

\* response.strip() if response else ""
ReplyOf(response) == IF response # <<>> THEN Strip(response) ELSE <<>>

----------------------------------------------------------------------------
(* app.py *)

API_KEY == "secret"

CALLBACK_RETRIES == 3

MAX_IDLE_SECONDS == 86400

MIN_TURNS == 8

\* the literal 0.6 of step 8
ACTIVATION_THRESHOLD == Float(6, 10)

FALLBACK_REPLY ==
    <<"I", " ", "a", "m", " ", "n", "o", "t", " ", "v", "e", "r", "y", " ", "s", "u", "r", "e", " ",
      "w", "h", "a", "t", " ", "t", "h", "i", "s", " ", "m", "e", "a", "n", "s", ".", " ", "C", "a",
      "n", " ", "y", "o", "u", " ", "p", "l", "e", "a", "s", "e", " ", "e", "x", "p", "l", "a", "i",
      "n", "?">>

\* a merge that skips no category
MergeKeysAll(intel) == Categories

\* the keys merge_intelligence passes on: `if not values: continue`
MergeKeys(intel) == {key \in Categories : intel[key] # {}}

\* the keys of the dict extract_intelligence returns, in its order
CategoryOrder ==
    <<"bankAccounts", "upiIds", "phoneNumbers", "phishingLinks", "suspiciousKeywords">>

\* `for key, values in new_intel.items()`: the keys passed on, in that order
MergeOrder(keys) == SelectSeq(CategoryOrder, LAMBDA key : key \in keys)

\* variant: the finalize test holds on the eighth message only
should_finalize_once(session) ==
    LET intel == session.intelligence
        has_core_intel == \/ BagCardinality(intel.upiIds) > 0
                          \/ BagCardinality(intel.phishingLinks) > 0
                          \/ BagCardinality(intel.phoneNumbers) > 0
                          \/ BagCardinality(intel.bankAccounts) > 0
        enough_turns == session.total_messages = MIN_TURNS
    IN has_core_intel /\ enough_turns

should_finalize(session) ==
    LET intel == session.intelligence
        has_core_intel == \/ BagCardinality(intel.upiIds) > 0
                          \/ BagCardinality(intel.phishingLinks) > 0
                          \/ BagCardinality(intel.phoneNumbers) > 0
                          \/ BagCardinality(intel.bankAccounts) > 0
        enough_turns == session.total_messages >= MIN_TURNS
    IN has_core_intel /\ enough_turns

\* a wait after every failed attempt, the last one included
BackoffAlways(attempt) == <<1 * (attempt + 1)>>

\* the wait after failed attempt number `attempt` (0-based), <<>> after the last one
BackoffAfter(attempt) ==
    IF attempt < CALLBACK_RETRIES - 1 THEN <<1 * (attempt + 1)>> ELSE <<>>

\* one pass of the loop of send_guvi_callback, after the posts and waits made so
\* far: requests.post is answered 2xx (accepted) or not (any RequestException,
\* raise_for_status's included).  Gives the posts and sleeps made, whether
\* mark_callback_sent was called, whether the function returns and whether an
\* exception leaves it.
CallbackPass(posts, waits, accepted) ==
    IF accepted
    THEN [posts |-> Append(posts, TRUE), waits |-> waits, sent |-> TRUE,
          returned |-> TRUE, raised |-> FALSE]
    ELSE [posts |-> Append(posts, FALSE), waits |-> waits \o BackoffAfter(Len(posts)),
          sent |-> FALSE, returned |-> Len(posts) + 1 >= CALLBACK_RETRIES,
          raised |-> FALSE]

\* a callback that lets the failure of the last attempt leave the function
send_guvi_callback_raising(posts, waits, accepted) ==
    LET r == CallbackPass(posts, waits, accepted)
    IN [posts |-> r.posts, waits |-> r.waits, sent |-> r.sent, returned |-> r.returned,
        raised |-> r.returned /\ ~r.sent]

send_guvi_callback(posts, waits, accepted) == CallbackPass(posts, waits, accepted)

\* the number of 2xx answers among the posts made
Accepted(posts) == Cardinality({k \in 1..Len(posts) : posts[k]})

\* `if x_api_key != API_KEY: raise HTTPException(401)` lets the request through
Authorized(x_api_key) == x_api_key = API_KEY

\* a sender check that ignores the case of the letters
IsScammerAnyCase(sender) == sender \in {"scammer", "Scammer"}

\* `if sender != "scammer": return ignored` lets the request through
IsScammer(sender) == sender = "scammer"

\* step 8: `session["confidence"] >= 0.6 and not session["agent_active"]`
ShouldActivate(session) ==
    AtLeast(session.confidence, ACTIVATION_THRESHOLD) /\ ~session.agent_active

\* a finalize condition that does not look at callback_sent
CallbackNotSentIgnored(session) == TRUE

\* step 12, line 181: `not session["callback_sent"]`
CallbackNotSent(session) == ~session.callback_sent

----------------------------------------------------------------------------
(* The inputs the requests are drawn from *)

TextHi == <<"h", "i">>

TextOtp == <<"o", "t", "p">>

TextBank == <<"b", "a", "n", "k", " ", "a", "c", "c", "o", "u", "n", "t">>

TextPhone == <<"9", "8", "7", "6", "5", "4", "3", "2", "1", "0">>

TextPlus91 == <<"+", "9", "1", "-", "9", "8", "7", "6", "5", "4", "3", "2", "1", "0">>

TextScam == <<"o", "t", "p", " ", "9", "8", "7", "6", "5", "4", "3", "2", "1", "0">>

TextMany ==
    <<"o", "t", "p", " ", "p", "a", "y", " ", "a", "b", "c", "@", "u", "p", "i", " ",
      "h", "t", "t", "p", ":", "/", "/", "x", ".", "c", "o", " ", "a", "/", "c", " ", "1", "2", "3",
      "4", "5", "6", "7", "8", "9", "0", "1", "2">>

LabelPhishing == <<"p", "h", "i", "s", "h", "i", "n", "g", "_", "u", "r", "l">>

LabelLegitimate ==
    <<"L", "E", "G", "I", "T", "I", "M", "A", "T", "E", "_", "E", "M", "A", "I", "L">>

ResponseOk == <<" ", "O", "k", " ", "b", "e", "t", "a", ".", " ">>

\* X-API-Key: absent (Header(None)), wrong, right
Keys == {"None", "guess", API_KEY}

Senders == {"scammer", "customer", "Scammer"}

\* what the language model does with one predict call
LlmRaises == [raised |-> TRUE, response |-> <<>>]

LlmSays(response) == [raised |-> FALSE, response |-> response]

AllTexts == {TextHi, TextOtp, TextBank, TextPhone, TextPlus91, TextScam, TextMany}

AllHists == {<<>>} \cup {<<t>> : t \in AllTexts}

AllReplies == {FALLBACK_REPLY, ReplyOf(ResponseOk), ReplyOf(<<>>)}

\* f"{history_text} {message_text} {reply_text}"
CumulativeText(conversationHistory, message_text, reply_text) ==
    Join(conversationHistory) \o <<" ">> \o message_text \o <<" ">> \o reply_text

\* extract_intelligence and detect_scam's keyword tests, tabulated over the texts
\* the inputs above can build (each is evaluated once instead of at every step)
ExtractionOf ==
    [c \in {CumulativeText(h, t, r) : h \in AllHists, t \in AllTexts, r \in AllReplies}
        |-> extract_intelligence(c)]

RenderDetectionOf == [t \in AllTexts |-> detect_scam_render(t)]

\* detect_scam(text) in lightweight mode
RenderDetection(text) ==
    IF text \in AllTexts THEN RenderDetectionOf[text] ELSE detect_scam_render(text)

\* what the classification pipeline does with one call: it cannot be loaded,
\* it is loaded and fails, or it returns [label, score]
PipelineLoadFails == [kind |-> "load_error", label |-> <<>>, score |-> 0]

PipelineFails == [kind |-> "error", label |-> <<>>, score |-> 0]

\* pipeline(...) returns the pipeline
PipelineLoaded == [kind |-> "loaded", label |-> <<>>, score |-> 0]

PipelineSays(label, score) == [kind |-> "ok", label |-> label, score |-> score]

AllPipelineResults ==
    {PipelineSays(LabelLegitimate, 50), PipelineSays(LabelPhishing, 50),
     PipelineSays(LabelPhishing, 99)}

ModelDetectionOf ==
    [t \in AllTexts, m \in AllPipelineResults |-> detect_scam_model(t, m)]

\* detect_scam(text) for what the pipeline returned
ModelDetection(text, result) ==
    IF text \in AllTexts /\ result \in AllPipelineResults
    THEN ModelDetectionOf[text, result]
    ELSE detect_scam_model(text, result)
----------------------------------------------------------------------------
(* POST /honeypot/message.  handle_message is a plain `def`: the framework *)
(* runs every request in a worker thread, and nothing in the code keeps    *)
(* the threads apart.  A step of the model is one access of one request to *)
(* what the threads share: a call of the session store, a read of the      *)
(* session record the request holds, an operation on agent._chains or      *)
(* on detector._detector, or the return of a blocking call (the            *)
(* construction of the pipeline, the pipeline's inference, the language    *)
(* model, requests.post with the sleep that follows a failure).  The code  *)
(* between two accesses works on the request's own variables and belongs   *)
(* to the step before it.  `threads` holds the requests inside the handler *)
(* and `last` the request that made the step.  The framework validates the *)
(* body against IncomingRequest before it calls the handler.               *)

\* the pipeline was not called
NotConsulted == [kind |-> "none", label |-> <<>>, score |-> 0]

\* the trace of a request: what it has done so far and what it returned
NoRequest ==
    [kind |-> "none",         \* "running", then "422", "401", "ignored", "success"
                              \* or "500"
     valid |-> TRUE,          \* the body is an IncomingRequest
     pc |-> "",               \* the access a running request makes next
     after |-> "",            \* the access its latest step made ("request": it
                              \* arrived)
     key |-> "",              \* the X-API-Key of the request
     sender |-> "",           \* its message.sender
     sid |-> "",              \* the sessionId of a processed request
     stale |-> {},            \* the record get_session returned, once the store has
                              \* evicted it: the request goes on reading this one
     text |-> <<>>,           \* its message.text
     hist |-> <<>>,           \* the texts of its conversationHistory
     reply |-> <<>>,          \* reply_text
     swept |-> FALSE,         \* cleanup_stale was called
     removed |-> {},          \* removed_ids
     topop |-> {},            \* the ids cleanup_chains_for_sessions has not popped yet
     dropped |-> {},          \* the ids whose chain it has dropped
     detect_calls |-> 0,      \* calls of detect_scam
     generate_calls |-> 0,    \* calls of generate_reply
     extract_calls |-> 0,     \* calls of extract_intelligence
     model |-> NotConsulted,  \* what the pipeline returned for the text
     detection |-> <<>>,      \* what detect_scam returned, <<is_scam, score>>
     in_map |-> FALSE,        \* the chain the request holds is the one in _chains
     intel |-> <<>>,          \* what extract_intelligence returned
     tomerge |-> <<>>,        \* the categories merge_intelligence has yet to pass on
     merged |-> {},           \* the categories add_intelligence was called for
     posts |-> <<>>,          \* the callback attempts made, TRUE for a 2xx answer
     waits |-> <<>>,          \* the sleeps between them, in seconds
     at_finalize |-> {},      \* the record it holds as it was when the request
                              \* left the finalize condition
     alone |-> TRUE]          \* no other request of its session was in the handler
                              \* with it

Finish(S, C, D, G, T, L) ==
    /\ sessions' = S
    /\ chains' = C
    /\ delivered' = D
    /\ scored' = G
    /\ threads' = T
    /\ last' = L
    /\ sequential' = (sequential /\ BagCardinality(T) <= 1)
    /\ UNCHANGED <<detector, IS_RENDER, now, built, endpoint>>

\* the request goes on to its next access
Continue(S, C, D, G, T, R, pc) ==
    \E waiting \in {[R EXCEPT !.after = R.pc, !.pc = pc]} :
        Finish(S, C, D, G, T (+) SetToBag({waiting}), waiting)

\* the request is answered
Respond(S, C, D, G, T, R, kind) ==
    Finish(S, C, D, G, T, [R EXCEPT !.kind = kind, !.after = R.pc, !.pc = ""])

\* the requests in the handler without R
Others(R) == threads (-) SetToBag({R})

\* the record a request holds: the stored one, or the one evicted under it
SessionIn(S, R) == IF R.stale = {} THEN S[R.sid] ELSE CHOOSE session \in R.stale : TRUE

\* `session`, the dict handle_message got from get_session in step 4
Session(R) == SessionIn(sessions, R)

\* the requests T after a step of another request: those of the sessions in
\* `overlapped` are no longer alone, those of the sessions in `unmapped` hold a
\* chain that is no longer the one in _chains, and those that hold the record
\* of a session in `evicted` (they have called get_session) keep that record
\* as the store S had it
RECURSIVE Disturb(_, _, _, _, _, _)
Disturb(T, todo, overlapped, unmapped, evicted, S) ==
    IF todo = {} THEN EmptyBag
    ELSE LET R == CHOOSE x \in todo : TRUE
         IN ([R EXCEPT !.alone = IF R.sid \in overlapped THEN FALSE ELSE @,
                       !.in_map = IF R.sid \in unmapped THEN FALSE ELSE @,
                       !.stale = IF /\ R.sid \in evicted /\ @ = {}
                                    /\ R.pc \notin {"cleanup_chains", "get_session"}
                                 THEN {S[R.sid]} ELSE @] :> T[R])
               (+) Disturb(T, todo \ {R}, overlapped, unmapped, evicted, S)

\* the requests of session_id in the handler whose message is not counted yet
Uncounted(session_id) ==
    BagCardinality([R \in {x \in BagToSet(threads) :
                              /\ x.sid = session_id
                              /\ x.pc \in {"cleanup_chains", "get_session", "increment"}}
                       |-> threads[R]])

\* the messages of session_id counted or about to be
Messages(session_id) ==
    (IF session_id \in DOMAIN sessions THEN sessions[session_id].total_messages ELSE 0)
        + Uncounted(session_id)

\* variant: a request that fails takes its message out of the count again
StoreRolledBack(S, session_id) == [S EXCEPT ![session_id].total_messages = @ - 1]

\* the store a raising call leaves behind: nothing in handle_message catches
\* the exception or undoes the store calls made before it
StoreAfterRaise(S, session_id) == S

\* variant: the score is added as it is
ConfidenceDeltaUnweighted(scam_confidence) == Float(scam_confidence, 100)

\* delta=scam_confidence * 0.4, for a score given in hundredths
ConfidenceDelta(scam_confidence) == FloatMul(Float(scam_confidence, 100), Float(4, 10))

\* step 9: `if session["agent_active"]: reply_text = generate_reply(...)`
CallsGenerator(session) == session.agent_active

\* steps 10 and 11 up to the first add_intelligence: the cumulative text, the
\* extraction and the categories merge_intelligence will pass on
Extract(R, reply_text, S, C, D, G, T) ==
    \E intel \in {ExtractionOf[CumulativeText(R.hist, R.text, reply_text)]} :
    \E keys \in {MergeOrder(MergeKeys(intel))} :
        Continue(S, C, D, G, T,
                 [R EXCEPT !.reply = reply_text, !.extract_calls = 1, !.intel = intel,
                           !.tomerge = keys],
                 IF keys # <<>> THEN "add_intelligence" ELSE "agent_active")

\* step 9 for the record as line 163 reads it: generate_reply up to its test
\* of _chains or, with the persona inactive, the fixed reply and step 10
Reply(R, session, S, C, D, G, T) ==
    IF CallsGenerator(session)
    THEN Continue(S, C, D, G, T, [R EXCEPT !.generate_calls = 1], "chain_lookup")
    ELSE Extract(R, FALLBACK_REPLY, S, C, D, G, T)

\* what follows the verdict of detect_scam: step 7 if it is scam-like
Detected(R, detection, S, C, D, G, T) ==
    Continue(S, C, D, G, T, [R EXCEPT !.detection = detection],
             IF detection[1] THEN "update_confidence" ELSE "activation")

\* step 3, first half: the sweep of the store
Process(P, sid, x_api_key, sender, message_text, conversationHistory) ==
    \E removed_ids \in {cleanup_stale(sessions, MAX_IDLE_SECONDS, sid, now)} :
    \E S1 \in {Restrict(sessions, DOMAIN sessions \ removed_ids)} :
    \E D \in {Restrict(delivered, DOMAIN S1)}, G \in {Restrict(scored, DOMAIN S1)} :
    \E T \in {Disturb(threads, BagToSet(threads), {sid}, {}, removed_ids, sessions)} :
    \E R \in {[NoRequest EXCEPT !.kind = "running", !.pc = "request",
                                !.key = x_api_key, !.sender = sender,
                                !.sid = sid, !.text = message_text,
                                !.hist = conversationHistory,
                                !.swept = TRUE, !.removed = removed_ids,
                                !.topop = removed_ids,
                                !.alone = \A other \in BagToSet(threads) :
                                              other.sid # sid]} :
        Continue(S1, chains, D, G, T, R,
                 IF removed_ids # {} THEN "cleanup_chains" ELSE "get_session")

\* handle_message: a request arrives; a body that is no IncomingRequest is
\* answered 422 by the framework, before the handler runs; the others pass the
\* checks of steps 1 and 2 or are answered by them, and call cleanup_stale
handle_message(P) ==
    /\ BagCardinality(threads) < Cardinality(P.workers)
    /\ \E body_valid \in P.bodies :
       \E session_id \in P.ids, x_api_key \in P.keys, sender \in P.senders :
        IF ~body_valid
        THEN /\ last' = [NoRequest EXCEPT !.kind = "422", !.after = "request",
                                          !.valid = FALSE,
                                          !.key = x_api_key, !.sender = sender]
             /\ UNCHANGED <<sessions, chains, detector, IS_RENDER, now, delivered,
                            scored, built, endpoint, sequential, threads>>
        ELSE IF ~Authorized(x_api_key)
        THEN /\ last' = [NoRequest EXCEPT !.kind = "401", !.after = "request",
                                          !.key = x_api_key, !.sender = sender]
             /\ UNCHANGED <<sessions, chains, detector, IS_RENDER, now, delivered,
                            scored, built, endpoint, sequential, threads>>
        ELSE IF ~IsScammer(sender)
        THEN /\ last' = [NoRequest EXCEPT !.kind = "ignored", !.after = "request",
                                          !.key = x_api_key, !.sender = sender]
             /\ UNCHANGED <<sessions, chains, detector, IS_RENDER, now, delivered,
                            scored, built, endpoint, sequential, threads>>
        ELSE /\ Messages(session_id) < P.maxMessages[session_id]
             /\ \E message_text \in P.texts, conversationHistory \in P.hists :
                    Process(P, session_id, x_api_key, sender, message_text,
                            conversationHistory)

\* step 3, second half: cleanup_chains_for_sessions pops the chain of one of
\* the removed ids
cleanup_chains(P) ==
    \E R \in BagToSet(threads) :
        /\ R.pc = "cleanup_chains"
        /\ \E sid \in R.topop :
           \E left \in {R.topop \ {sid}} :
              Continue(sessions, cleanup_chains_for_sessions(chains, {sid}),
                       delivered, scored,
                       IF sid \in DOMAIN chains
                       THEN Disturb(Others(R), BagToSet(Others(R)), {}, {sid}, {},
                                    sessions)
                       ELSE Others(R),
                       [R EXCEPT !.topop = left,
                                 !.dropped = @ \cup ({sid} \cap DOMAIN chains)],
                       IF left # {} THEN "cleanup_chains" ELSE "get_session")

\* step 4: session_manager.get_session
load_session(P) ==
    \E R \in BagToSet(threads) :
        /\ R.pc = "get_session"
        /\ \E fresh \in {R.sid \notin DOMAIN sessions} :
              Continue(get_session(sessions, R.sid, now), chains,
                       IF fresh THEN Put(delivered, R.sid, 0) ELSE delivered,
                       IF fresh THEN Put(scored, R.sid, 0) ELSE scored,
                       Others(R), R, "increment")

\* step 5 and the start of step 6: increment_message_count, then detect_scam,
\* which in lightweight mode is the keyword verdict and otherwise goes to
\* get_detector
count_message(P) ==
    \E R \in BagToSet(threads) :
        /\ R.pc = "increment"
        /\ IF ~Stored(sessions, R.sid)
           THEN Respond(sessions, chains, delivered, scored, Others(R), R, "500")
           ELSE \E S \in {increment_message_count(sessions, R.sid, now)} :
                \E R1 \in {[R EXCEPT !.detect_calls = 1]} :
                   IF IS_RENDER
                   THEN Detected(R1, RenderDetection(R.text), S, chains, delivered,
                                 scored, Others(R))
                   ELSE Continue(S, chains, delivered, scored, Others(R), R1,
                                 "get_detector")

\* get_detector: `if _detector is None`
get_detector(P) ==
    \E R \in BagToSet(threads) :
        /\ R.pc = "get_detector"
        /\ Continue(sessions, chains, delivered, scored, Others(R), R,
                    IF detector = "none" THEN "pipeline" ELSE "inference")

\* get_detector: `_detector = pipeline(...)` returns the pipeline, which is
\* assigned, or raises
pipeline_returns(P) ==
    \E R \in BagToSet(threads) :
        /\ R.pc = "pipeline"
        /\ \E result \in {PipelineLoaded} \cup (P.pipeline \cap {PipelineLoadFails}) :
              IF result.kind = "loaded"
              THEN \E waiting \in {[R EXCEPT !.after = R.pc, !.pc = "inference"]} :
                      /\ detector' = "loaded"
                      /\ built' = built + 1
                      /\ threads' = Others(R) (+) SetToBag({waiting})
                      /\ last' = waiting
                      /\ UNCHANGED <<sessions, chains, IS_RENDER, now, delivered, scored,
                                     endpoint, sequential>>
              ELSE /\ sessions' = StoreAfterRaise(sessions, R.sid)
                   /\ threads' = Others(R)
                   /\ last' = [R EXCEPT !.kind = "500", !.after = R.pc, !.pc = ""]
                   /\ UNCHANGED <<chains, detector, IS_RENDER, now, delivered, scored,
                                  built, endpoint, sequential>>

\* detect_scam: `detector(text)[0]` returns [label, score] or raises
detector_returns(P) ==
    \E R \in BagToSet(threads) :
        /\ R.pc = "inference"
        /\ \E result \in {r \in P.pipeline : r.kind \in {"ok", "error"}} :
              IF result.kind = "error"
              THEN Respond(StoreAfterRaise(sessions, R.sid), chains, delivered, scored,
                           Others(R), R, "500")
              ELSE Detected([R EXCEPT !.model = result],
                            ModelDetection(R.text, result), sessions, chains,
                            delivered, scored, Others(R))

\* step 7: session_manager.update_confidence
add_confidence(P) ==
    \E R \in BagToSet(threads) :
        /\ R.pc = "update_confidence"
        /\ \E scam_confidence \in {R.detection[2]} :
              IF ~Stored(sessions, R.sid)
              THEN Respond(sessions, chains, delivered, scored, Others(R), R, "500")
              ELSE Continue(update_confidence(sessions, R.sid,
                                              ConfidenceDelta(scam_confidence)),
                            chains, delivered,
                            Put(scored, R.sid, scored[R.sid] + scam_confidence),
                            Others(R), R, "activation")

\* step 8, the condition, read from the record the request holds; where it
\* is false, the condition of step 9, which no call separates from it
check_activation(P) ==
    \E R \in BagToSet(threads) :
        /\ R.pc = "activation"
        /\ IF ShouldActivate(Session(R))
           THEN Continue(sessions, chains, delivered, scored, Others(R), R,
                         "activate_agent")
           ELSE Reply(R, Session(R), sessions, chains, delivered, scored, Others(R))

\* step 8, session_manager.activate_agent, which sets the flag of the stored
\* record, and the condition of step 9, read from the record the request holds
activate(P) ==
    \E R \in BagToSet(threads) :
        /\ R.pc = "activate_agent"
        /\ IF ~Stored(sessions, R.sid)
           THEN Respond(sessions, chains, delivered, scored, Others(R), R, "500")
           ELSE \E S \in {activate_agent(sessions, R.sid)} :
                   Reply(R, SessionIn(S, R), S, chains, delivered, scored, Others(R))

\* _get_or_create_chain: `if session_id in _chains`
get_or_create_chain(P) ==
    \E R \in BagToSet(threads) :
        /\ R.pc = "chain_lookup"
        /\ Continue(sessions, chains, delivered, scored, Others(R), R,
                    IF chain_exists(chains, R.sid) THEN "chain_fetch" ELSE "chain_store")

\* _get_or_create_chain: `return _chains[session_id]`, a KeyError if the chain
\* was popped after the test; chain.predict is called on the chain found
fetch_chain(P) ==
    \E R \in BagToSet(threads) :
        /\ R.pc = "chain_fetch"
        /\ IF chain_exists(chains, R.sid)
           THEN Continue(sessions, chains, delivered, scored, Others(R),
                         [R EXCEPT !.in_map = TRUE], "llm")
           ELSE Respond(StoreAfterRaise(sessions, R.sid), chains, delivered, scored,
                        Others(R), R, "500")

\* _get_or_create_chain: `_chains[session_id] = chain` for the chain built
\* after the test, which replaces the chain another request may have put
\* there since; chain.predict is called on the new chain
store_chain(P) ==
    \E R \in BagToSet(threads) :
        /\ R.pc = "chain_store"
        /\ Continue(sessions, set_chain(chains, R.sid), delivered, scored,
                    Disturb(Others(R), BagToSet(Others(R)), {}, {R.sid}, {}, sessions),
                    [R EXCEPT !.in_map = TRUE], "llm")

\* generate_reply: chain.predict returns the response, which the memory of the
\* chain it was called on keeps with the message, or raises
predict_returns(P) ==
    \E R \in BagToSet(threads) :
        /\ R.pc = "llm"
        /\ \E llm \in P.llm :
              IF llm.raised
              THEN Respond(StoreAfterRaise(sessions, R.sid), chains, delivered, scored,
                           Others(R), R, "500")
              ELSE Extract(R, ReplyOf(llm.response), sessions,
                           IF R.in_map THEN Put(chains, R.sid, chains[R.sid] + 1)
                           ELSE chains,
                           delivered, scored, Others(R))

\* merge_intelligence: session_manager.add_intelligence for the next category
\* that is not empty
merge_intelligence(P) ==
    \E R \in BagToSet(threads) :
        /\ R.pc = "add_intelligence"
        /\ \E key \in {Head(R.tomerge)}, left \in {Tail(R.tomerge)} :
              IF ~Stored(sessions, R.sid)
              THEN Respond(sessions, chains, delivered, scored, Others(R), R, "500")
              ELSE Continue(add_intelligence(sessions, R.sid, key, R.intel[key]),
                            chains, delivered, scored, Others(R),
                            [R EXCEPT !.tomerge = left, !.merged = @ \cup {key}],
                            IF left # <<>> THEN "add_intelligence" ELSE "agent_active")

\* step 12, `session["agent_active"]` (line 180), read from the record the
\* request holds; if it is false the response follows (step 13)
read_agent_active(P) ==
    \E R \in BagToSet(threads) :
        /\ R.pc = "agent_active"
        /\ \E R1 \in {[R EXCEPT !.at_finalize = {Session(R)}]} :
              IF Session(R).agent_active
              THEN Continue(sessions, chains, delivered, scored, Others(R), R,
                            "callback_sent")
              ELSE Respond(sessions, chains, delivered, scored, Others(R), R1, "success")

\* step 12, `not session["callback_sent"]` (line 181), read from the record
\* the request holds; if the flag is set the response follows
read_callback_sent(P) ==
    \E R \in BagToSet(threads) :
        /\ R.pc = "callback_sent"
        /\ \E R1 \in {[R EXCEPT !.at_finalize = {Session(R)}]} :
              IF CallbackNotSent(Session(R))
              THEN Continue(sessions, chains, delivered, scored, Others(R), R,
                            "finalize")
              ELSE Respond(sessions, chains, delivered, scored, Others(R), R1, "success")

\* step 12, `should_finalize(session)` (line 182) on the record the request
\* holds, whatever callback_sent has become since line 181; what
\* should_finalize reads only grows, so its reads give what one look at the
\* record gives.  If it holds send_guvi_callback is called, otherwise the
\* response follows.
check_finalize(P) ==
    \E R \in BagToSet(threads) :
        /\ R.pc = "finalize"
        /\ \E R1 \in {[R EXCEPT !.at_finalize = {Session(R)}]} :
              IF should_finalize(Session(R))
              THEN Continue(sessions, chains, delivered, scored, Others(R), R1, "post")
              ELSE Respond(sessions, chains, delivered, scored, Others(R), R1, "success")

\* send_guvi_callback: requests.post is answered; on a 2xx answer
\* mark_callback_sent is called for session["sessionId"] and the function
\* returns, otherwise it sleeps and posts again or gives up
post_returns(P) ==
    \E R \in BagToSet(threads) :
        /\ R.pc = "post"
        /\ \E accepted \in IF endpoint = "up" THEN P.outcomes \cap {TRUE} ELSE P.outcomes :
           \E cb \in {send_guvi_callback(R.posts, R.waits, accepted)} :
           \E R2 \in {[R EXCEPT !.posts = cb.posts, !.waits = cb.waits]} :
           \E D \in {IF accepted /\ R.sid \in DOMAIN delivered
                     THEN Put(delivered, R.sid, delivered[R.sid] + 1)
                     ELSE delivered} :
              IF cb.sent /\ ~Stored(sessions, R.sid)
              THEN Respond(sessions, chains, D, scored, Others(R), R2, "500")
              ELSE IF cb.returned
              THEN Respond(IF cb.sent THEN mark_callback_sent(sessions, R.sid)
                           ELSE sessions,
                           chains, D, scored, Others(R), R2,
                           IF cb.raised THEN "500" ELSE "success")
              ELSE Continue(sessions, chains, D, scored, Others(R), R2, "post")

\* the callback endpoint is back for good
endpoint_recovers(P) ==
    /\ endpoint = "flaky"
    /\ endpoint' = "up"
    /\ last' = NoRequest
    /\ UNCHANGED <<sessions, chains, detector, IS_RENDER, now, delivered, scored, built,
                   sequential, threads>>

\* time passes between requests (a request takes far less than the idle limit)
Tick(P) ==
    /\ threads = EmptyBag
    /\ \E d \in P.steps :
        /\ now + d <= P.maxClock
        /\ now' = now + d
        /\ last' = NoRequest
        /\ UNCHANGED <<sessions, chains, detector, IS_RENDER, delivered, scored, built,
                       endpoint, sequential, threads>>

\* the process after import: no session, no chain, no pipeline, no request
Init ==
    /\ sessions = <<>>
    /\ chains = <<>>
    /\ detector = "none"
    /\ IS_RENDER \in BOOLEAN
    /\ now = 0
    /\ delivered = <<>>
    /\ scored = <<>>
    /\ built = 0
    /\ endpoint = "flaky"
    /\ sequential = TRUE
    /\ last = NoRequest
    /\ threads = EmptyBag

----------------------------------------------------------------------------
(* Specifications *)

\* the worker threads that can be inside handle_message at once
Workers == {"w1", "w2"}

MaxMessages == 2

MaxDays == 1

\* the lightweight deployment (RENDER=true)
LightInit == Init /\ IS_RENDER

\* requests of two callers and the idle sweep, in the lightweight deployment
Inputs ==
    [ids |-> {"s1", "s2"},
     keys |-> {API_KEY},
     bodies |-> {TRUE},
     senders |-> {"scammer"},
     texts |-> {TextMany},
     hists |-> {<<>>},
     pipeline |-> {PipelineSays(LabelLegitimate, 50)},
     llm |-> {LlmSays(ResponseOk)},
     outcomes |-> BOOLEAN,
     workers |-> Workers,
     steps |-> {MAX_IDLE_SECONDS, MAX_IDLE_SECONDS + 1},
     maxMessages |-> [id \in {"s1", "s2"} |-> MaxMessages],
     maxClock |-> MaxDays * (MAX_IDLE_SECONDS + 1)]

Next ==
    \/ handle_message(Inputs)
    \/ cleanup_chains(Inputs)
    \/ load_session(Inputs)
    \/ count_message(Inputs)
    \/ add_confidence(Inputs)
    \/ check_activation(Inputs)
    \/ activate(Inputs)
    \/ get_or_create_chain(Inputs)
    \/ fetch_chain(Inputs)
    \/ store_chain(Inputs)
    \/ predict_returns(Inputs)
    \/ merge_intelligence(Inputs)
    \/ read_agent_active(Inputs)
    \/ read_callback_sent(Inputs)
    \/ check_finalize(Inputs)
    \/ Tick(Inputs)

Spec == LightInit /\ [][Next]_vars

\* requests of one caller with every kind of artifact
IntelInputs ==
    [ids |-> {"s1"},
     keys |-> {API_KEY},
     bodies |-> {TRUE},
     senders |-> {"scammer"},
     texts |-> {TextPhone, TextPlus91, TextMany},
     hists |-> {<<>>},
     pipeline |-> {PipelineSays(LabelLegitimate, 50)},
     llm |-> {LlmSays(ResponseOk)},
     outcomes |-> BOOLEAN,
     workers |-> Workers,
     steps |-> {MAX_IDLE_SECONDS + 1},
     maxMessages |-> [id \in {"s1"} |-> MaxMessages],
     maxClock |-> MaxDays * (MAX_IDLE_SECONDS + 1)]

IntelNext ==
    \/ handle_message(IntelInputs)
    \/ load_session(IntelInputs)
    \/ count_message(IntelInputs)
    \/ get_detector(IntelInputs)
    \/ pipeline_returns(IntelInputs)
    \/ detector_returns(IntelInputs)
    \/ add_confidence(IntelInputs)
    \/ check_activation(IntelInputs)
    \/ activate(IntelInputs)
    \/ get_or_create_chain(IntelInputs)
    \/ fetch_chain(IntelInputs)
    \/ store_chain(IntelInputs)
    \/ predict_returns(IntelInputs)
    \/ merge_intelligence(IntelInputs)
    \/ read_agent_active(IntelInputs)
    \/ read_callback_sent(IntelInputs)
    \/ check_finalize(IntelInputs)

IntelSpec == Init /\ [][IntelNext]_vars

\* every kind of body, key and sender, against sessions that exist and have
\* gone stale
AccessInputs ==
    [ids |-> {"s1", "s2"},
     keys |-> Keys,
     bodies |-> BOOLEAN,
     senders |-> Senders,
     texts |-> {TextMany},
     hists |-> {<<>>},
     pipeline |-> {PipelineSays(LabelLegitimate, 50)},
     llm |-> {LlmSays(ResponseOk)},
     outcomes |-> BOOLEAN,
     workers |-> Workers,
     steps |-> {MAX_IDLE_SECONDS + 1},
     maxMessages |-> ("s1" :> MaxMessages) @@ ("s2" :> 1),
     maxClock |-> MaxDays * (MAX_IDLE_SECONDS + 1)]

AccessNext ==
    \/ handle_message(AccessInputs)
    \/ cleanup_chains(AccessInputs)
    \/ load_session(AccessInputs)
    \/ count_message(AccessInputs)
    \/ get_detector(AccessInputs)
    \/ pipeline_returns(AccessInputs)
    \/ detector_returns(AccessInputs)
    \/ add_confidence(AccessInputs)
    \/ check_activation(AccessInputs)
    \/ activate(AccessInputs)
    \/ get_or_create_chain(AccessInputs)
    \/ fetch_chain(AccessInputs)
    \/ store_chain(AccessInputs)
    \/ predict_returns(AccessInputs)
    \/ merge_intelligence(AccessInputs)
    \/ read_agent_active(AccessInputs)
    \/ read_callback_sent(AccessInputs)
    \/ check_finalize(AccessInputs)
    \/ Tick(AccessInputs)

AccessSpec == Init /\ [][AccessNext]_vars

MaxTurns == 9

\* a long conversation of one caller and single messages of another, every
\* message a scam with a phone number, in the lightweight deployment
CallbackInputs ==
    [ids |-> {"s1", "s2"},
     keys |-> {API_KEY},
     bodies |-> {TRUE},
     senders |-> {"scammer"},
     texts |-> {TextScam},
     hists |-> {<<>>},
     pipeline |-> {PipelineSays(LabelLegitimate, 50)},
     llm |-> {LlmSays(ResponseOk)},
     outcomes |-> BOOLEAN,
     workers |-> Workers,
     steps |-> {MAX_IDLE_SECONDS + 1},
     maxMessages |-> ("s1" :> MaxTurns) @@ ("s2" :> 1),
     maxClock |-> MaxDays * (MAX_IDLE_SECONDS + 1)]

CallbackNext ==
    \/ handle_message(CallbackInputs)
    \/ cleanup_chains(CallbackInputs)
    \/ load_session(CallbackInputs)
    \/ count_message(CallbackInputs)
    \/ add_confidence(CallbackInputs)
    \/ check_activation(CallbackInputs)
    \/ activate(CallbackInputs)
    \/ get_or_create_chain(CallbackInputs)
    \/ fetch_chain(CallbackInputs)
    \/ store_chain(CallbackInputs)
    \/ predict_returns(CallbackInputs)
    \/ merge_intelligence(CallbackInputs)
    \/ read_agent_active(CallbackInputs)
    \/ read_callback_sent(CallbackInputs)
    \/ check_finalize(CallbackInputs)
    \/ post_returns(CallbackInputs)
    \/ Tick(CallbackInputs)

CallbackSpec == LightInit /\ [][CallbackNext]_vars

MaxReplies == 4

\* one conversation of harmless, scam and artifact-only messages
PolicyInputs ==
    [ids |-> {"s1"},
     keys |-> {API_KEY},
     bodies |-> {TRUE},
     senders |-> {"scammer"},
     texts |-> {TextHi, TextOtp, TextPhone},
     hists |-> {<<>>},
     pipeline |-> {PipelineSays(LabelLegitimate, 50), PipelineFails, PipelineLoadFails},
     llm |-> {LlmSays(ResponseOk), LlmRaises},
     outcomes |-> BOOLEAN,
     workers |-> Workers,
     steps |-> {},
     maxMessages |-> [id \in {"s1"} |-> MaxReplies],
     maxClock |-> 0]

PolicyNext ==
    \/ handle_message(PolicyInputs)
    \/ load_session(PolicyInputs)
    \/ count_message(PolicyInputs)
    \/ get_detector(PolicyInputs)
    \/ pipeline_returns(PolicyInputs)
    \/ detector_returns(PolicyInputs)
    \/ add_confidence(PolicyInputs)
    \/ check_activation(PolicyInputs)
    \/ activate(PolicyInputs)
    \/ get_or_create_chain(PolicyInputs)
    \/ fetch_chain(PolicyInputs)
    \/ store_chain(PolicyInputs)
    \/ predict_returns(PolicyInputs)
    \/ merge_intelligence(PolicyInputs)
    \/ read_agent_active(PolicyInputs)
    \/ read_callback_sent(PolicyInputs)
    \/ check_finalize(PolicyInputs)

PolicySpec == Init /\ [][PolicyNext]_vars

\* One caller whose requests are served, and a callback endpoint that refuses
\* posts as it likes until it is back for good: a request that can arrive
\* arrives, the thread of a request inside the handler is scheduled and the
\* call it waits in returns.
LiveInputs ==
    [ids |-> {"s1"},
     keys |-> {API_KEY},
     bodies |-> {TRUE},
     senders |-> {"scammer"},
     texts |-> {TextScam},
     hists |-> {<<>>},
     pipeline |-> {PipelineSays(LabelLegitimate, 50)},
     llm |-> {LlmSays(ResponseOk)},
     outcomes |-> BOOLEAN,
     workers |-> Workers,
     maxMessages |-> [id \in {"s1"} |-> MaxTurns]]

LiveNext ==
    \/ handle_message(LiveInputs)
    \/ load_session(LiveInputs)
    \/ count_message(LiveInputs)
    \/ add_confidence(LiveInputs)
    \/ check_activation(LiveInputs)
    \/ activate(LiveInputs)
    \/ get_or_create_chain(LiveInputs)
    \/ fetch_chain(LiveInputs)
    \/ store_chain(LiveInputs)
    \/ predict_returns(LiveInputs)
    \/ merge_intelligence(LiveInputs)
    \/ read_agent_active(LiveInputs)
    \/ read_callback_sent(LiveInputs)
    \/ check_finalize(LiveInputs)
    \/ post_returns(LiveInputs)
    \/ endpoint_recovers(LiveInputs)

\* a message of the scammer is taken up
Processed == handle_message(LiveInputs) /\ last'.swept

\* a request inside the handler goes on: its thread is scheduled, and a call
\* it waits in returns
Returned ==
    \/ load_session(LiveInputs)
    \/ count_message(LiveInputs)
    \/ add_confidence(LiveInputs)
    \/ check_activation(LiveInputs)
    \/ activate(LiveInputs)
    \/ get_or_create_chain(LiveInputs)
    \/ fetch_chain(LiveInputs)
    \/ store_chain(LiveInputs)
    \/ predict_returns(LiveInputs)
    \/ merge_intelligence(LiveInputs)
    \/ read_agent_active(LiveInputs)
    \/ read_callback_sent(LiveInputs)
    \/ check_finalize(LiveInputs)
    \/ post_returns(LiveInputs)

LiveSpec ==
    /\ LightInit
    /\ [][LiveNext]_vars
    /\ WF_vars(Processed)
    /\ WF_vars(Returned)

\* two requests of one caller at a time, every message a scam with a phone number
RaceInputs ==
    [ids |-> {"s1"},
     keys |-> {API_KEY},
     bodies |-> {TRUE},
     senders |-> {"scammer"},
     texts |-> {TextScam},
     hists |-> {<<>>},
     pipeline |-> {PipelineSays(LabelLegitimate, 50)},
     llm |-> {LlmSays(ResponseOk)},
     outcomes |-> BOOLEAN,
     workers |-> Workers,
     maxMessages |-> [id \in {"s1", "s2"} |-> MaxTurns]]

RaceNext ==
    \/ handle_message(RaceInputs)
    \/ load_session(RaceInputs)
    \/ count_message(RaceInputs)
    \/ get_detector(RaceInputs)
    \/ pipeline_returns(RaceInputs)
    \/ detector_returns(RaceInputs)
    \/ add_confidence(RaceInputs)
    \/ check_activation(RaceInputs)
    \/ activate(RaceInputs)
    \/ get_or_create_chain(RaceInputs)
    \/ fetch_chain(RaceInputs)
    \/ store_chain(RaceInputs)
    \/ predict_returns(RaceInputs)
    \/ merge_intelligence(RaceInputs)
    \/ read_agent_active(RaceInputs)
    \/ read_callback_sent(RaceInputs)
    \/ check_finalize(RaceInputs)
    \/ post_returns(RaceInputs)

RaceSpec == Init /\ [][RaceNext]_vars

MaxScored == 4

\* the lightweight deployment: messages the keyword detector scores 0.9, 0.7
\* and not at all
ScoreInputs ==
    [ids |-> {"s1"},
     keys |-> {API_KEY},
     bodies |-> {TRUE},
     senders |-> {"scammer"},
     texts |-> {TextOtp, TextBank, TextHi},
     hists |-> {<<>>},
     pipeline |-> {PipelineSays(LabelLegitimate, 50)},
     llm |-> {LlmSays(ResponseOk)},
     outcomes |-> BOOLEAN,
     workers |-> Workers,
     maxMessages |-> [id \in {"s1"} |-> MaxScored]]

ScoreNext ==
    \/ handle_message(ScoreInputs)
    \/ load_session(ScoreInputs)
    \/ count_message(ScoreInputs)
    \/ add_confidence(ScoreInputs)
    \/ check_activation(ScoreInputs)
    \/ activate(ScoreInputs)
    \/ get_or_create_chain(ScoreInputs)
    \/ fetch_chain(ScoreInputs)
    \/ store_chain(ScoreInputs)
    \/ predict_returns(ScoreInputs)
    \/ merge_intelligence(ScoreInputs)
    \/ read_agent_active(ScoreInputs)
    \/ read_callback_sent(ScoreInputs)
    \/ check_finalize(ScoreInputs)

ScoreSpec == LightInit /\ [][ScoreNext]_vars

\* The detector on its own: detect_scam applied to texts of up to MaxWords
\* words and, with the model, to every label and score of the pipeline.
MaxWords == 2

WordOtp == <<"o", "t", "p">>

WordOTP == <<"O", "T", "P">>

WordPin == <<"p", "i", "n">>

WordUpi == <<"u", "p", "i">>

WordAccount == <<"A", "c", "c", "o", "u", "n", "t">>

WordBlocked == <<"b", "l", "o", "c", "k", "e", "d">>

WordBank == <<"b", "a", "n", "k">>

WordHi == <<"h", "i">>

Vocabulary ==
    {WordOtp, WordOTP, WordPin, WordUpi, WordAccount, WordBlocked, WordBank, WordHi}

DetectorTexts ==
    {Join(ws) : ws \in UNION {[1..n -> Vocabulary] : n \in 0..MaxWords}}

LabelSpam == <<"S", "P", "A", "M">>

LabelFraud == <<"f", "r", "a", "u", "d">>

DetectorScores == {0, 50, 59, 60, 84, 85, 99, 100}

DetectorPipeline ==
    {PipelineSays(label, score) :
        label \in {LabelLegitimate, LabelPhishing, LabelSpam, LabelFraud},
        score \in DetectorScores}

\* one message of one caller: detect_scam as handle_message calls it, for
\* every text and, with the model, every label and score of the pipeline
DetectorInputs ==
    [ids |-> {"s1"},
     keys |-> {API_KEY},
     bodies |-> {TRUE},
     senders |-> {"scammer"},
     texts |-> DetectorTexts,
     hists |-> {<<>>},
     pipeline |-> DetectorPipeline,
     llm |-> {LlmSays(ResponseOk)},
     outcomes |-> BOOLEAN,
     workers |-> Workers,
     maxMessages |-> [id \in {"s1"} |-> 1]]

\* the request up to the return of detect_scam
DetectorNext ==
    \/ handle_message(DetectorInputs)
    \/ load_session(DetectorInputs)
    \/ count_message(DetectorInputs)
    \/ get_detector(DetectorInputs)
    \/ pipeline_returns(DetectorInputs)
    \/ detector_returns(DetectorInputs)

DetectorSpec == Init /\ [][DetectorNext]_vars
-----------------------------------------------------------------------------
(* The callback is delivered once *)

\* the sessions that live through a step
Survivors == DOMAIN sessions \cap DOMAIN sessions'

\* the step ran when requests.post was answered to a request that, from its
\* arrival on, was the only one of its session inside the handler
PostedAlone == last'.after = "post" /\ last'.alone

C1_Step ==
    /\ \A id \in DOMAIN sessions' :
          delivered'[id] >= 1 => sessions'[id].callback_sent
    /\ \A id \in Survivors :
          sessions[id].callback_sent => sessions'[id].callback_sent
    /\ last'.alone /\ last'.after = "callback_sent" =>
          /\ last'.pc = "finalize" <=> ~sessions'[last'.sid].callback_sent
          /\ sessions'[last'.sid].callback_sent =>
                last'.kind = "success" /\ last'.posts = <<>>
    /\ last'.alone /\ last'.after = "finalize" /\ last'.pc = "post" =>
          ~sessions'[last'.sid].callback_sent
    /\ PostedAlone =>
          /\ ~sessions[last'.sid].callback_sent
          /\ delivered[last'.sid] = 0
          /\ delivered'[last'.sid] <= 1

\* C1: for requests handled one after the other the callback endpoint accepts
\* at most one delivery in the life of a session: an accepted delivery sets
\* callback_sent, callback_sent stays true while the session lives, and a later
\* request of the session, which finds it true, posts nothing.
C1_DeliveredAtMostOnce == [][C1_Step]_vars

\* a request of a session whose callback was delivered earlier, which still
\* meets the finalize condition, has been answered without a post
C1_Witness ==
    \E id \in DOMAIN sessions :
        /\ sessions[id].callback_sent /\ delivered[id] = 1
        /\ sessions[id].agent_active /\ should_finalize(sessions[id])
        /\ last.sid = id /\ last.kind = "success" /\ last.posts = <<>>
        /\ last.after = "callback_sent" /\ last.alone
        /\ \E session \in last.at_finalize : session.callback_sent

-----------------------------------------------------------------------------
(* Requests turned away *)

\* the step is the arrival of a request
IsRequest == last'.after = "request"

NothingDone ==
    /\ UNCHANGED <<sessions, chains, detector, IS_RENDER, now, delivered, scored, built,
                   endpoint, sequential, threads>>
    /\ ~last'.swept /\ last'.removed = {}
    /\ last'.detect_calls = 0 /\ last'.generate_calls = 0
    /\ last'.extract_calls = 0 /\ last'.merged = {} /\ last'.posts = <<>>

\* C2: a request whose X-API-Key is missing or differs from API_KEY is answered
\* 401 and does nothing else: no session is created or changed, no sweep runs,
\* and detector, reply generator, extractor and callback are not called.
C2_UnauthorizedDoesNothing ==
    [][IsRequest /\ last'.key # API_KEY => last'.kind = "401" /\ NothingDone]_vars

C3_Step ==
    IsRequest /\ last'.valid /\ last'.key = API_KEY /\ last'.sender # "scammer" =>
        /\ last'.kind = "ignored" /\ last'.reply = <<>>
        /\ NothingDone

\* C3: an authorized request whose message.sender (the body is an
\* IncomingRequest, which has one) is not exactly "scammer" is answered
\* {status: "ignored", reply: ""} and leaves sessions, counters, confidence,
\* intelligence, flags and persona memories as they were.
C3_IgnoredDoesNothing == [][C3_Step]_vars

\* a request of sender "Scammer" has been ignored while a session with a
\* persona memory exists
C3_Witness ==
    /\ last.kind = "ignored" /\ last.sender = "Scammer"
    /\ \E id \in DOMAIN sessions : id \in DOMAIN chains

-----------------------------------------------------------------------------
(* Activation *)

\* the step decided between the reply generator and the fallback line: it
\* read line 163, after line 159 or after activate_agent
ReplyDecided ==
    last'.after \in {"activation", "activate_agent"} /\ last'.pc # "activate_agent"

C4_Step ==
    /\ \A id \in DOMAIN sessions' \ DOMAIN sessions : ~sessions'[id].agent_active
    /\ \A id \in Survivors :
          /\ sessions[id].agent_active => sessions'[id].agent_active
          /\ ~sessions[id].agent_active /\ sessions'[id].agent_active =>
                /\ last'.sid = id /\ last'.after = "activate_agent"
                /\ AtLeast(sessions'[id].confidence, Float(6, 10))
    /\ ReplyDecided /\ AtLeast(sessions'[last'.sid].confidence, Float(6, 10)) =>
          /\ sessions'[last'.sid].agent_active
          /\ last'.generate_calls = 1

\* C4: agent_active is false when a session is created and never goes back to
\* false; a request that has made its confidence update and passed steps 8
\* and 9 with the confidence of the session at 0.6 or more leaves the persona
\* active, and its reply comes from the reply generator.
C4_ActivationAtThreshold == [][C4_Step]_vars

-----------------------------------------------------------------------------
(* The finalize condition *)

HasCoreIntel(session) ==
    \E key \in {"upiIds", "phishingLinks", "phoneNumbers", "bankAccounts"} :
        BagToSet(session.intelligence[key]) # {}

\* the request read callback_sent in its finalize check and found it false
FoundUnsent == last'.after = "callback_sent" /\ last'.pc = "finalize"

\* the request leaves its finalize check for the callback
CallsBack == last'.after = "finalize" /\ last'.pc = "post"

C5_Step ==
    \A id \in DOMAIN sessions' :
        /\ FoundUnsent /\ last'.sid = id => ~sessions'[id].callback_sent
        /\ CallsBack /\ last'.sid = id =>
              /\ sessions'[id].agent_active
              /\ sessions'[id].total_messages >= 8
              /\ HasCoreIntel(sessions'[id])

\* C5: a request that leaves its finalize check for the callback does so for a
\* session that is active, whose total_messages is at least 8 and which holds
\* one of upiIds, phishingLinks, phoneNumbers, bankAccounts, and when the check
\* read callback_sent, the callback_sent of the session was false.
C5_CallbackOnlyWhenDue == [][C5_Step]_vars

-----------------------------------------------------------------------------
(* One invocation of the callback *)

\* the step ran when requests.post was answered
Posted == last'.after = "post"

C6_Step ==
    /\ last'.pc = "post" /\ last'.after # "post" => last'.posts = <<>> /\ last'.waits = <<>>
    /\ Posted =>
          LET n == Len(last'.posts)
              asleep == last'.pc = "post"
          IN /\ n >= 1 /\ n <= 3
             /\ \A k \in 1..(n - 1) : ~last'.posts[k]
             /\ asleep <=> ~last'.posts[n] /\ n < 3
             /\ last'.waits = [k \in 1..(IF asleep THEN n ELSE n - 1) |-> k]
             /\ last'.posts[n] => sessions'[last'.sid].callback_sent
             /\ ~last'.posts[n] => sessions' = sessions

\* C6: one invocation posts at most 3 times, in order, and stops at the first
\* accepted post; the wait before attempt k+1 is k seconds and no wait follows
\* the last attempt; the invocation sets callback_sent iff one of its posts was
\* accepted.
C6_RetryDiscipline == [][C6_Step]_vars

\* two failed posts, waits of 1 s and 2 s, and a third post that was accepted
C6_Witness ==
    /\ last.posts = <<FALSE, FALSE, TRUE>> /\ last.waits = <<1, 2>>
    /\ last.kind = "success"
    /\ sessions[last.sid].callback_sent

C7_Step ==
    Posted /\ last'.pc # "post" =>
        /\ last'.kind = "success"
        /\ \E R \in BagToSet(threads) :
              /\ R.pc = "post" /\ R.sid = last'.sid /\ R.reply = last'.reply
              /\ R.posts = SubSeq(last'.posts, 1, Len(last'.posts) - 1)
        /\ DOMAIN sessions' = DOMAIN sessions
        /\ \A id \in DOMAIN sessions :
              sessions'[id] = IF id = last'.sid /\ last'.posts[Len(last'.posts)]
                              THEN mark_callback_sent(sessions, id)[id]
                              ELSE sessions[id]
        /\ chains' = chains

\* C7: when all 3 posts fail the request is still answered with status success
\* and its reply, the invocation leaves callback_sent false, and the rest of the
\* session is what an accepted post would have left: the two outcomes differ in
\* callback_sent only.
C7_FailedCallbackIsSilent == [][C7_Step]_vars

\* three failed posts in a request answered with success
C7_Witness ==
    /\ last.posts = <<FALSE, FALSE, FALSE>> /\ last.kind = "success"
    /\ last.waits = <<1, 2>>
    /\ last.reply # <<>> /\ ~sessions[last.sid].callback_sent

-----------------------------------------------------------------------------
(* The idle sweep *)

\* the step popped the chains of the ids cleanup_stale had returned
Popped == last'.after = "cleanup_chains"

C8_Step ==
    /\ IsRequest /\ last'.swept =>
          LET sid == last'.sid
          IN /\ sid \in DOMAIN sessions =>
                   sid \in DOMAIN sessions' /\ sessions'[sid] = sessions[sid]
             /\ sid \notin last'.removed
             /\ \A id \in DOMAIN sessions \ {sid} :
                   LET idle == now - sessions[id].last_active
                   IN /\ idle > 86400 =>
                            id \notin DOMAIN sessions' /\ id \in last'.removed
                      /\ idle < 86400 =>
                            /\ id \in DOMAIN sessions' /\ sessions'[id] = sessions[id]
                            /\ id \notin last'.removed
             /\ last'.topop = last'.removed
             /\ chains' = chains
    /\ Popped =>
          /\ \E R \in BagToSet(threads) :
                /\ R.pc = "cleanup_chains" /\ R.sid = last'.sid
                /\ R.removed = last'.removed
                /\ \E id \in R.topop :
                      /\ last'.topop = R.topop \ {id}
                      /\ id \notin DOMAIN chains'
                      /\ \A other \in DOMAIN chains \ {id} :
                            other \in DOMAIN chains' /\ chains'[other] = chains[other]
          /\ sessions' = sessions
    /\ last'.swept =>
          /\ last'.pc = "cleanup_chains" <=> last'.topop # {}
          /\ last'.dropped \subseteq last'.removed \ last'.topop

\* C8: the sweep of a request never evicts the session of the request, however
\* long it was idle; every other session idle for more than 86400 s is deleted
\* and its chain is dropped before the request goes on to load its session;
\* sessions idle for less are kept.
C8_SweepSparesCurrent == [][C8_Step]_vars

\* 86401 s after the sessions were last active, a request of one of them, idle
\* for as long, has evicted the other and dropped the chain it had
C8_Witness ==
    /\ last.after = "cleanup_chains" /\ last.pc = "get_session"
    /\ last.dropped # {} /\ last.dropped \cap DOMAIN chains = {}
    /\ last.removed \cap DOMAIN sessions = {}
    /\ last.sid \in DOMAIN sessions
    /\ now - sessions[last.sid].last_active > MAX_IDLE_SECONDS

-----------------------------------------------------------------------------
(* The intelligence record *)

\* C9: no string is both in phoneNumbers and in bankAccounts of a session.
C9_NoOverlap ==
    \A id \in DOMAIN sessions :
        BagToSet(sessions[id].intelligence.phoneNumbers)
            \cap BagToSet(sessions[id].intelligence.bankAccounts) = {}

\* the step ran one call of add_intelligence
MergeStep == last'.after = "add_intelligence"

C10_Step ==
    /\ \A id \in DOMAIN sessions', key \in Categories :
          \A v \in BagToSet(sessions'[id].intelligence[key]) :
              CopiesIn(v, sessions'[id].intelligence[key]) = 1
    /\ \A id \in Survivors, key \in Categories :
          BagToSet(sessions[id].intelligence[key])
              \subseteq BagToSet(sessions'[id].intelligence[key])
    /\ \A key \in last'.merged : last'.intel[key] # {}
    /\ last'.extract_calls = 1 /\ last'.pc # "add_intelligence" =>
          last'.merged = {key \in Categories : last'.intel[key] # {}}
    /\ MergeStep =>
          \E R \in BagToSet(threads) :
              /\ R.pc = "add_intelligence" /\ R.sid = last'.sid
              /\ R.intel = last'.intel
              /\ \E key \in Categories \ R.merged :
                    LET sid == last'.sid
                        old == sessions[sid].intelligence[key]
                        new == sessions'[sid].intelligence[key]
                    IN /\ last'.merged = R.merged \cup {key}
                       /\ BagToSet(new) = BagToSet(old) \cup last'.intel[key]
                       /\ last'.intel[key] \subseteq BagToSet(old) => new = old
                       /\ \A other \in Categories \ {key} :
                             sessions'[sid].intelligence[other]
                                 = sessions[sid].intelligence[other]

\* C10: while a session lives each category only grows and holds no string
\* twice; merging artifacts that are all present leaves the category as it
\* was; a category the extraction left empty gets no merge call.
C10_CategoriesGrowWithoutDuplicates == [][C10_Step]_vars

\* in lightweight mode the second message of a session has extracted the phone
\* number the first one had stored, and nothing for upiIds
C10_Witness ==
    /\ IS_RENDER
    /\ \E id \in DOMAIN sessions :
          /\ sessions[id].total_messages = 2 /\ sessions[id].confidence = <<>>
          /\ sessions[id].intelligence.phoneNumbers = SetToBag({TextPhone})
          /\ sessions[id].intelligence.bankAccounts = EmptyBag
          /\ last.sid = id /\ last.kind = "success"
          /\ last.intel.phoneNumbers = {TextPhone} /\ "phoneNumbers" \in last.merged
          /\ last.intel.upiIds = {} /\ "upiIds" \notin last.merged

----------------------------------------------------------------------------
(* The keyword detector *)

\* kw occurs somewhere in the lower-cased text
Occurs(kw, raw) ==
    \E i \in 1..Len(raw) :
        /\ i + Len(kw) - 1 <= Len(raw)
        /\ \A j \in 1..Len(kw) : LowerChar(raw[i + j - 1]) = kw[j]

AnyStrong(raw) == \E sk \in STRONG_KEYWORDS : Occurs(sk, raw)

TwoSuspicious(raw) ==
    \E k1, k2 \in detector_SUSPICIOUS_KEYWORDS :
        k1 # k2 /\ Occurs(k1, raw) /\ Occurs(k2, raw)

OneSuspicious(raw) ==
    /\ \E k \in detector_SUSPICIOUS_KEYWORDS : Occurs(k, raw)
    /\ ~TwoSuspicious(raw)

\* detect_scam has returned to the request, in lightweight mode
RenderCall == IS_RENDER /\ last.after = "increment" /\ last.detection # <<>>

\* detect_scam has returned to the request what it made of the pipeline's answer
ModelCall == ~IS_RENDER /\ last.after = "inference" /\ last.detection # <<>>

\* C11: in lightweight mode detect_scam returns (true, 0.9) when the
\* lower-cased text contains a strong keyword, otherwise (true, 0.7) when it
\* contains two or more distinct suspicious keywords, otherwise (false, 0.0);
\* one suspicious keyword and no strong one gives (false, 0.0)
C11_LightweightDetection ==
    RenderCall =>
        /\ AnyStrong(last.text) => last.detection = <<TRUE, 90>>
        /\ ~AnyStrong(last.text) /\ TwoSuspicious(last.text)
              => last.detection = <<TRUE, 70>>
        /\ ~AnyStrong(last.text) /\ ~TwoSuspicious(last.text)
              => last.detection = <<FALSE, 0>>
        /\ ~AnyStrong(last.text) /\ OneSuspicious(last.text)
              => last.detection = <<FALSE, 0>>

C11_Witness ==
    /\ RenderCall
    /\ ~AnyStrong(last.text)
    /\ OneSuspicious(last.text)
    /\ Len(last.text) > Len(WordBank)
    /\ last.detection = <<FALSE, 0>>

ScamLabel(label) ==
    \/ Occurs(<<"p", "h", "i", "s", "h">>, label)
    \/ Occurs(<<"s", "p", "a", "m">>, label)
    \/ Occurs(<<"f", "r", "a", "u", "d">>, label)

\* C12: with the model, whatever label and score it returns: a strong
\* keyword in any letter case makes the text scam-like with a score of at
\* least 0.85, two or more suspicious keywords make it scam-like with a score
\* of at least 0.6, the score of a scam-like text is never below the model's
\* score, and a text that is not scam-like scores exactly 0.0
C12_ModelDetection ==
    ModelCall =>
        /\ AnyStrong(last.text) => last.detection[1] /\ last.detection[2] >= 85
        /\ TwoSuspicious(last.text) => last.detection[1] /\ last.detection[2] >= 60
        /\ last.detection[1] => last.detection[2] >= last.model.score
        /\ ~last.detection[1] => last.detection[2] = 0
        /\ last.detection[1] <=>
              (ScamLabel(last.model.label) \/ AnyStrong(last.text)
               \/ TwoSuspicious(last.text))

C12_Witness ==
    /\ ModelCall
    /\ last.text = Join(<<WordOTP, WordHi>>)
    /\ last.model = PipelineSays(LabelLegitimate, 50)
    /\ last.detection = <<TRUE, 85>>

----------------------------------------------------------------------------
(* A request that fails *)

DetectorFailed(L) == L.kind = "500" /\ L.after \in {"pipeline", "inference"}

GeneratorFailed(L) == L.kind = "500" /\ L.after = "llm"

C15_Step ==
    last'.kind = "500" =>
        LET id == last'.sid
        IN /\ DetectorFailed(last') \/ GeneratorFailed(last')
           /\ id \in DOMAIN sessions /\ sessions' = sessions
           /\ sessions'[id].total_messages >= 1
           /\ chains' = chains /\ delivered' = delivered /\ scored' = scored
           /\ last'.extract_calls = 0 /\ last'.merged = {} /\ last'.posts = <<>>
           /\ last'.intel = <<>> /\ last'.at_finalize = {}
           /\ DetectorFailed(last') =>
                 last'.detection = <<>> /\ last'.generate_calls = 0
           /\ GeneratorFailed(last') =>
                 /\ last'.detection # <<>> /\ last'.generate_calls = 1
                 /\ sessions'[id].agent_active
                 /\ last'.detection[1] =>
                       AtLeast(sessions'[id].confidence,
                               FloatMul(Float(last'.detection[2], 100), Float(4, 10)))

\* C15: a request whose detector or generator fails leaves its effects behind:
\* the failure changes nothing in the store, so the increment of total_messages
\* stays, and for a generator failure so do the confidence increase and the
\* activation; no intelligence is merged and no callback is attempted.
C15_FailureKeepsEffects == [][C15_Step]_vars

\* the second scam message of a session activated the persona and the
\* generator then failed: two messages counted, confidence 0.72, nothing merged
C15_Witness ==
    /\ GeneratorFailed(last)
    /\ last.sid \in DOMAIN sessions
    /\ sessions[last.sid].total_messages = 2
    /\ sessions[last.sid].confidence
          = FloatAdd(FloatMul(Float(90, 100), Float(4, 10)),
                     FloatMul(Float(90, 100), Float(4, 10)))
    /\ sessions[last.sid].agent_active
    /\ last.extract_calls = 0 /\ last.merged = {} /\ last.posts = <<>>

----------------------------------------------------------------------------
(* The confidence *)

\* the step ran update_confidence
Updated == last'.after = "update_confidence"

C16_Step ==
    /\ \A id \in Survivors :
          /\ AtLeast(sessions'[id].confidence, sessions[id].confidence)
          /\ ~(Updated /\ last'.sid = id) =>
                sessions'[id].confidence = sessions[id].confidence
    /\ Updated =>
          /\ last'.detection[1]
          /\ sessions'[last'.sid].confidence
                = FloatAdd(sessions[last'.sid].confidence,
                           FloatMul(Float(last'.detection[2], 100), Float(4, 10)))
    /\ last'.detection # <<>> /\ ~last'.detection[1] => ~Updated
    /\ \A id \in DOMAIN sessions' :
          /\ AtLeast(FloatMul(Float(4, 10), Float(scored'[id] + 1, 100)),
                     sessions'[id].confidence)
          /\ scored'[id] >= 1 =>
                AtLeast(sessions'[id].confidence,
                        FloatMul(Float(4, 10), Float(scored'[id] - 1, 100)))

\* C16 as amended: the confidence never decreases; a request whose detection is
\* scam-like with score s adds the double s * 0.4 to it by a floating-point
\* addition, a request whose detection is not scam-like leaves it as it is, and
\* nothing caps it; the confidence is this running sum, which is 0.4 times the
\* sum of the scores up to rounding (within 0.004 of it).
C16_ConfidenceAccumulates == [][C16_Step]_vars

\* three messages scored 0.9 have brought the confidence above 1, and a fourth
\* that is not scam-like has left it there
C16_Witness ==
    \E id \in DOMAIN sessions :
        /\ sessions[id].total_messages = 4 /\ scored[id] = 270
        /\ AtLeast(sessions[id].confidence, Float(1, 1))
        /\ last.sid = id /\ last.kind = "success" /\ last.detection = <<FALSE, 0>>

\* C16: the confidence of a session is 0.4 times the sum of the scores of the
\* scam-like detections made since the session was created, whatever their
\* order, as the product of the doubles 0.4 and the sum.
C16_ConfidenceIsWeightedSum ==
    \A id \in DOMAIN sessions :
        sessions[id].confidence = FloatMul(Float(4, 10), Float(scored[id], 100))

----------------------------------------------------------------------------
(* The reply step *)

ChainLength(C, id) == IF id \in DOMAIN C THEN C[id] ELSE 0

\* the step neither created nor extended nor dropped the transcript of id
ChainKept(id) ==
    /\ id \in DOMAIN chains' <=> id \in DOMAIN chains
    /\ ChainLength(chains', id) = ChainLength(chains, id)

C19_Step ==
    /\ last'.generate_calls \in {0, 1}
    /\ ReplyDecided =>
          LET id == last'.sid
          IN /\ last'.generate_calls = 1 <=> sessions'[id].agent_active
             /\ last'.generate_calls = 0 =>
                   last'.reply = FALLBACK_REPLY /\ last'.extract_calls = 1
    /\ last'.sid # "" /\ last'.generate_calls = 0 => ChainKept(last'.sid)
    /\ last'.kind = "success" /\ last'.generate_calls = 0 =>
          last'.reply = FALLBACK_REPLY

\* C19: the reply generator is invoked exactly once in a request whose session
\* has an active persona at the reply step and not at all otherwise; with the
\* persona inactive the reply is the fixed fallback line and no transcript is
\* created or extended.
C19_GeneratorOnlyWhenActive == [][C19_Step]_vars

----------------------------------------------------------------------------
(* Sessions are independent *)

C17_Step ==
    last'.kind # "none" /\ last'.sid # "" =>
        /\ \A B \in DOMAIN sessions \ {last'.sid} :
              IF IsRequest /\ B \in last'.removed
              THEN B \notin DOMAIN sessions'
              ELSE /\ B \in DOMAIN sessions' /\ sessions'[B] = sessions[B]
                   /\ ChainKept(B)

\* C17: a step of a request for session A leaves every other session B that
\* the store holds as it was, its fields and its persona transcript, unless the
\* step is the sweep of that request and evicts B.  This holds for every
\* interleaving of the steps of requests to A and B.
C17_SessionsIndependent == [][C17_Step]_vars

----------------------------------------------------------------------------
(* Transcripts belong to live sessions *)

\* C20: after requests handled one after the other, every id that has a chain
\* in the generator's map has a live session whose agent_active is true; no
\* chain survives the eviction of its session.
C20_ChainsOfLiveActiveSessions ==
    threads = EmptyBag /\ sequential =>
        \A id \in DOMAIN chains :
            id \in DOMAIN sessions /\ sessions[id].agent_active

\* a request whose sweep evicted the other session and dropped its chain has
\* ended with the only transcript left being its own
C20_Witness ==
    /\ threads = EmptyBag /\ sequential
    /\ last.removed # {} /\ last.dropped = last.removed
    /\ DOMAIN sessions = {last.sid}
    /\ DOMAIN chains = {last.sid}
    /\ last.generate_calls = 1 /\ last.kind = "success"

----------------------------------------------------------------------------
(* A failed callback is tried again *)

\* the finalize precondition holds and the callback has not been delivered
PendingCallback(session) ==
    /\ session.agent_active /\ ~session.callback_sent
    /\ session.total_messages >= 8 /\ HasCoreIntel(session)

\* the part of the precondition that is not the persona nor the flag
Finalizable(session) == session.total_messages >= 8 /\ HasCoreIntel(session)

C14_Step ==
    /\ last'.after = "agent_active" =>
          (sessions'[last'.sid].agent_active <=> last'.pc = "callback_sent")
    /\ last'.after = "callback_sent" =>
          (~sessions'[last'.sid].callback_sent <=> last'.pc = "finalize")
    /\ last'.after = "finalize" =>
          /\ Finalizable(sessions'[last'.sid]) <=> last'.pc = "post"
          /\ last'.pc = "post" => last'.posts = <<>>
    /\ Posted =>
          /\ Len(last'.posts) <= 3
          /\ last'.pc = "post" =>
                Accepted(last'.posts) = 0 /\ Len(last'.posts) < 3
          /\ last'.pc # "post" /\ Accepted(last'.posts) = 0 =>
                Len(last'.posts) = 3 /\ sessions' = sessions
          /\ Accepted(last'.posts) > 0 => sessions'[last'.sid].callback_sent

\* the endpoint is back, a session waits for its callback and a request for it
\* can still arrive
CanDeliver ==
    /\ endpoint = "up"
    /\ \E id \in DOMAIN sessions :
          PendingCallback(sessions[id]) /\ Messages(id) < LiveInputs.maxMessages[id]

Sent == \E id \in DOMAIN sessions : sessions[id].callback_sent

\* C14: once a session satisfies the finalize precondition and its callback
\* has failed, every later request for it whose finalize check finds
\* callback_sent false posts again with a budget of up to 3 attempts; so once
\* the endpoint accepts, the next request for the session delivers the
\* callback: callback_sent becomes true.
C14_RetriedUntilDelivered == [][C14_Step]_vars /\ (CanDeliver ~> Sent)

\* the callback of the eighth message failed three times and the ninth
\* message delivered it at its second attempt
C14_Witness ==
    \E id \in DOMAIN sessions :
        /\ sessions[id].callback_sent /\ sessions[id].total_messages = 9
        /\ last.sid = id /\ last.posts = <<FALSE, TRUE>> /\ last.alone
        /\ \E session \in last.at_finalize : session.total_messages = 9
        /\ delivered[id] = 1

----------------------------------------------------------------------------
(* Concurrent requests *)

\* C13: when two requests for the same session are handled concurrently and
\* both reach the finalize check while callback_sent is false, the callback
\* endpoint still accepts at most one post for that session.
C13_DeliveredOnceConcurrently ==
    \A id \in DOMAIN delivered : delivered[id] <= 1

\* C18: the classification pipeline is built at most once in the life of the
\* process, also when several requests call the detector for the first time
\* concurrently.
C18_PipelineBuiltOnce == built <= 1

====
